---- MODULE Spec2Model ----
(***************************************************************************)
(* Model of shimmy/openspiel_wrapper.py: OpenspielWrapper, the adapter     *)
(* that turns an OpenSpiel game into a PettingZoo agent-cycling (AEC)      *)
(* environment.  The wrapper's fields are the variables; reset and step    *)
(* are the actions.  The wrapped simulator (pyspiel.State) is external: it *)
(* is modelled by the answers its API gives, and the state it moves to on  *)
(* apply_action is chosen nondeterministically, so that every simulator    *)
(* behaviour is covered.                                                   *)
(***************************************************************************)
EXTENDS Integers, Sequences, FiniteSets, TLC

\* ---------------------------------------------------------------- bounds
NumPlayers == 2        \* game.num_players()
NumActions == 2        \* game.num_distinct_actions()
MaxGameLength == 3     \* game.max_game_length()
MaxChance == 2         \* longest run of consecutive chance nodes

Players == 0 .. (NumPlayers - 1)
Actions == 0 .. (NumActions - 1)

\* ------------------------------------------------------- python helpers
Range(s) == {s[i] : i \in 1 .. Len(s)}

\* (mutant: the head of the list is dropped, whatever x is)
ListRemove_head(s, x) == Tail(s)

\* list.remove(x): drops the first occurrence of x
ListRemove(s, x) ==
    LET i == CHOOSE j \in 1 .. Len(s) : s[j] = x /\ \A k \in 1 .. (j - 1) : s[k] # x
    IN  SubSeq(s, 1, i - 1) \o SubSeq(s, i + 1, Len(s))

\* A python dict whose iteration order matters is a sequence of <<key, value>>
\* pairs in insertion order; assigning an existing key keeps its position.
DictKeys(d) == {d[i][1] : i \in 1 .. Len(d)}
DictGet(d, k) == d[CHOOSE i \in 1 .. Len(d) : d[i][1] = k][2]
DictSet(d, k, v) ==
    IF k \in DictKeys(d)
    THEN [i \in 1 .. Len(d) |-> IF d[i][1] = k THEN <<k, v>> ELSE d[i]]
    ELSE Append(d, <<k, v>>)
DictValues(d) == [i \in 1 .. Len(d) |-> d[i][2]]

\* ------------------------------------------------------------ the agents
\* "player_" + str(r)
AgentName(r) == <<"player", r>>
possible_agents == [k \in 1 .. NumPlayers |-> AgentName(k - 1)]
agent_id_name_mapping == [r \in Players |-> AgentName(r)]
agent_name_id_mapping == [nm \in Range(possible_agents) |-> nm[2]]
NoAgent == <<"unset", -1>>

\* -------------------------------------------------- the wrapped simulator
\* Legal-action sets a simulator may report.  At a sequential node the player
\* to move has something to play and the players not to move all get the same
\* answer: nothing (what OpenSpiel itself reports) or every action.  At a
\* simultaneous node every player can play, or one player has nothing to play.
MoverSet == {NumActions - 1}
OtherSets == {{}, Actions}
ZeroRewards == [i \in Players |-> 0]
RewardProfiles == {ZeroRewards, [i \in Players |-> i + 1]}
NoLegal == [i \in Players |-> {}]

SeqNodes ==
    {[kind |-> "seq", player |-> p, legal |-> [i \in Players |-> IF i = p THEN MoverSet ELSE o],
      rew |-> r, outs |-> {}, moves |-> 0] :
        p \in Players, o \in OtherSets, r \in RewardProfiles}
SimNodes ==
    {[kind |-> "sim", player |-> -2, legal |-> [i \in Players |-> IF i = e THEN {} ELSE Actions],
      rew |-> r, outs |-> {}, moves |-> 0] :
        e \in Players \cup {-1}, r \in RewardProfiles}
TermNodes ==
    {[kind |-> "term", player |-> -4, legal |-> NoLegal, rew |-> r, outs |-> {}, moves |-> 0] :
        r \in RewardProfiles}
ChanceNodes ==
    {[kind |-> "chance", player |-> -1, legal |-> NoLegal, rew |-> ZeroRewards, outs |-> o, moves |-> 0] :
        o \in {Actions, {0}}}
Nodes == SeqNodes \cup SimNodes \cup TermNodes \cup ChanceNodes
NoState == [kind |-> "none", player |-> -3, legal |-> NoLegal, rew |-> ZeroRewards,
            outs |-> {}, moves |-> 0]

is_chance_node(st) == st.kind = "chance"
is_simultaneous_node(st) == st.kind = "sim"
is_terminal(st) == st.kind = "term"
\* a player index at a sequential node, a negative special id elsewhere
current_player(st) == st.player
legal_actions(st, i) == st.legal[i]
chance_outcomes(st) == st.outs
state_rewards(st) == st.rew
observation_tensor(st, i) == <<st.kind, st.moves, i>>
max_game_length == MaxGameLength
\* the simulator moves to node nxt and its history grows by one move
apply_action(st, move, nxt) == [nxt EXCEPT !.moves = st.moves + 1]
new_initial_state(nxt) == [nxt EXCEPT !.moves = 0]

\* np_random.choice(action_list): rnd is the random draw
RECURSIVE SortedSeq(_)
SortedSeq(S) ==
    IF S = {} THEN <<>>
    ELSE LET m == CHOOSE x \in S : \A y \in S : x <= y
         IN  <<m>> \o SortedSeq(S \ {m})
choice(action_set, rnd) ==
    LET action_list == SortedSeq(action_set)
    IN  action_list[(rnd % Len(action_list)) + 1]

\* What the simulator does during one call (its oracle): the node it is at
\* after the first move of the call, then the node after each chance
\* resolution; rnd is the random draw used to leave a chance node.  A path is
\* a run of at most MaxChance chance nodes followed by one other node.
NonChanceNodes == SeqNodes \cup SimNodes \cup TermNodes
\* (the draw modelled is the last entry of the outcome list)
ChanceSteps == {[node |-> n, rnd |-> Cardinality(chance_outcomes(n)) - 1] : n \in ChanceNodes}
FinalSteps == [node : NonChanceNodes, rnd : {0}]
Paths ==
    UNION {{pre \o <<last>> : pre \in [1 .. k -> ChanceSteps], last \in FinalSteps} :
              k \in 0 .. MaxChance}
\* a game's first decision node is not terminal
InitialPaths == {p \in Paths : p[Len(p)].node.kind # "term"}

\* ------------------------------------------------------------- the state
VARIABLES
    game_state,            \* self.game_state
    game_length,           \* self.game_length
    agents,                \* self.agents (list)
    agent_selection,       \* self.agent_selection
    cumulative_rewards,    \* self._cumulative_rewards
    rewards,               \* self.rewards
    terminations,          \* self.terminations
    truncations,           \* self.truncations
    infos,                 \* self.infos[agent]["action_mask"]
    observations,          \* self.observations
    simultaneous_actions,  \* self.simultaneous_actions (insertion-ordered dict)
    call                   \* the last call: what was called, how it returned, what it handed to the simulator

vars == <<game_state, game_length, agents, agent_selection, cumulative_rewards, rewards,
          terminations, truncations, infos, observations, simultaneous_actions, call>>

Init ==
    /\ game_state = NoState
    /\ game_length = 0
    /\ agents = <<>>
    /\ agent_selection = NoAgent
    /\ cumulative_rewards = <<>>
    /\ rewards = <<>>
    /\ terminations = <<>>
    /\ truncations = <<>>
    /\ infos = <<>>
    /\ observations = <<>>
    /\ simultaneous_actions = <<>>
    /\ call = [op |-> "init", ret |-> "ok", did |-> "none", action |-> 0, applied |-> <<>>]

\* ----------------------------------------------------------- the helpers
\* (mutant: `if` in place of `while`, one chance node resolved at most)
execute_chance_node_once(st, gl, path) ==
    IF is_chance_node(st) /\ Len(path) >= 2
    THEN LET action == choice(chance_outcomes(st), Head(path).rnd)
         IN  [game_state |-> apply_action(st, action, path[2].node), game_length |-> gl + 1,
              applied |-> <<[type |-> "chance", move |-> <<action>>, outs |-> chance_outcomes(st)]>>]
    ELSE [game_state |-> st, game_length |-> gl, applied |-> <<>>]

\* while is_chance_node: game_length += 1; apply a drawn outcome.
\* Head(path) is the oracle's entry for st itself.
RECURSIVE execute_chance_node(_, _, _)
execute_chance_node(st, gl, path) ==
    IF is_chance_node(st) /\ Len(path) >= 2
    THEN LET action == choice(chance_outcomes(st), Head(path).rnd)
             rest == execute_chance_node(apply_action(st, action, path[2].node),
                                         gl + 1, Tail(path))
         IN  [rest EXCEPT !.applied =
                  <<[type |-> "chance", move |-> <<action>>, outs |-> chance_outcomes(st)]>> \o @]
    ELSE [game_state |-> st, game_length |-> gl, applied |-> <<>>]

update_observations(st, ags) ==
    [a \in Range(ags) |-> observation_tensor(st, agent_name_id_mapping[a])]

\* (mutant: legal_actions() without the player, i.e. those of the player to move)
update_action_masks_of_mover(st) ==
    [agent_name \in {agent_id_name_mapping[i] : i \in Players} |->
        [a \in Actions |->
            IF current_player(st) >= 0 /\ a \in legal_actions(st, current_player(st))
            THEN 1 ELSE 0]]

update_action_masks(st) ==
    [agent_name \in {agent_id_name_mapping[i] : i \in Players} |->
        [a \in Actions |->
            IF a \in legal_actions(st, agent_name_id_mapping[agent_name]) THEN 1 ELSE 0]]

\* (mutant: every agent is given the first player's reward)
update_rewards_first(st) ==
    [agent_name \in {agent_id_name_mapping[i] : i \in Players} |-> state_rewards(st)[0]]

update_rewards(st) ==
    [agent_name \in {agent_id_name_mapping[i] : i \in Players} |->
        state_rewards(st)[agent_name_id_mapping[agent_name]]]

MaskSum(mask) == Cardinality({a \in DOMAIN mask : mask[a] = 1})

\* (mutant: the pending-action holder is not cleared after the joint action)
execute_simultaneous_keeps_holder(action, nxt) ==
    LET sa == DictSet(simultaneous_actions, agent_selection, action)
        cr == [cumulative_rewards EXCEPT ![agent_selection] = 0]
        waiting == {k \in 1 .. Len(agents) : agents[k] \notin DictKeys(sa)}
    IN  IF waiting # {}
        THEN [game_state |-> game_state, game_length |-> game_length,
              simultaneous_actions |-> sa, cumulative_rewards |-> cr,
              agent_selection |-> agents[CHOOSE k \in waiting : \A j \in waiting : k <= j],
              applied |-> <<>>, did |-> "pending"]
        ELSE [game_state |-> apply_action(game_state, DictValues(sa), nxt),
              game_length |-> game_length + 1,
              simultaneous_actions |-> sa, cumulative_rewards |-> cr,
              agent_selection |-> agent_selection,
              applied |-> <<[type |-> "joint", move |-> DictValues(sa), outs |-> {}]>>,
              did |-> "apply"]

\* the simultaneous branch: store the agent's action, zero its reward, select
\* the first agent without an action; once all are in, apply the joint action
\* (the holder's values, in insertion order) and clear the holder
execute_simultaneous(action, nxt) ==
    LET sa == DictSet(simultaneous_actions, agent_selection, action)
        cr == [cumulative_rewards EXCEPT ![agent_selection] = 0]
        waiting == {k \in 1 .. Len(agents) : agents[k] \notin DictKeys(sa)}
    IN  IF waiting # {}
        THEN [game_state |-> game_state, game_length |-> game_length,
              simultaneous_actions |-> sa, cumulative_rewards |-> cr,
              agent_selection |-> agents[CHOOSE k \in waiting : \A j \in waiting : k <= j],
              applied |-> <<>>, did |-> "pending"]
        ELSE [game_state |-> apply_action(game_state, DictValues(sa), nxt),
              game_length |-> game_length + 1,
              simultaneous_actions |-> <<>>, cumulative_rewards |-> cr,
              agent_selection |-> agent_selection,
              applied |-> <<[type |-> "joint", move |-> DictValues(sa), outs |-> {}]>>,
              did |-> "apply"]

\* (mutant: the applied action is not counted in game_length)
execute_sequential_uncounted(action, nxt) ==
    LET st == apply_action(game_state, action, nxt)
        cp == current_player(st)
    IN  [game_state |-> st, game_length |-> game_length,
         simultaneous_actions |-> simultaneous_actions,
         cumulative_rewards |-> cumulative_rewards,
         agent_selection |-> IF cp >= 0 THEN agent_id_name_mapping[cp] ELSE agents[1],
         applied |-> <<[type |-> "action", move |-> <<action>>, outs |-> {}]>>,
         did |-> "apply"]

\* the generic branch: apply the action, then select the simulator's current
\* player, or the first agent when the current player is a special id
execute_sequential(action, nxt) ==
    LET st == apply_action(game_state, action, nxt)
        cp == current_player(st)
    IN  [game_state |-> st, game_length |-> game_length + 1,
         simultaneous_actions |-> simultaneous_actions,
         cumulative_rewards |-> cumulative_rewards,
         agent_selection |-> IF cp >= 0 THEN agent_id_name_mapping[cp] ELSE agents[1],
         applied |-> <<[type |-> "action", move |-> <<action>>, outs |-> {}]>>,
         did |-> "apply"]

execute_action_node(action, nxt) ==
    IF is_simultaneous_node(game_state)
    THEN execute_simultaneous(action, nxt)
    ELSE execute_sequential(action, nxt)

\* (mutant: after the removal no other agent is selected)
end_routine_keeps_selection ==
    LET names == Range(agents)
        zero_mask == \E a \in names : MaskSum(infos[a]) = 0
        term == [a \in names |-> is_terminal(game_state) \/ zero_mask]
        trunc == [a \in names |-> game_length > max_game_length]
    IN  IF agent_selection \notin names
        THEN [out |-> "raise", terminations |-> term, truncations |-> trunc,
              agents |-> agents, agent_selection |-> agent_selection]
        ELSE IF term[agent_selection] \/ trunc[agent_selection]
        THEN [out |-> "retire", terminations |-> term, truncations |-> trunc,
              agents |-> ListRemove(agents, agent_selection),
              agent_selection |-> agent_selection]
        ELSE [out |-> "continue", terminations |-> term, truncations |-> trunc,
              agents |-> agents, agent_selection |-> agent_selection]

\* (mutant: an all-zero mask terminates only the agent it belongs to)
end_routine_own_mask ==
    LET names == Range(agents)
        term == [a \in names |-> is_terminal(game_state) \/ MaskSum(infos[a]) = 0]
        trunc == [a \in names |-> game_length > max_game_length]
    IN  IF agent_selection \notin names
        THEN [out |-> "raise", terminations |-> term, truncations |-> trunc,
              agents |-> agents, agent_selection |-> agent_selection]
        ELSE IF term[agent_selection] \/ trunc[agent_selection]
        THEN LET rest == ListRemove(agents, agent_selection)
             IN  [out |-> "retire", terminations |-> term, truncations |-> trunc,
                  agents |-> rest,
                  agent_selection |-> IF rest # <<>> THEN rest[1] ELSE agent_selection]
        ELSE [out |-> "continue", terminations |-> term, truncations |-> trunc,
              agents |-> agents, agent_selection |-> agent_selection]

\* recompute terminations and truncations; if the selected agent is done,
\* remove it and select the first remaining agent.  Looking up an agent that
\* is not in the freshly built dicts raises KeyError.
end_routine ==
    LET names == Range(agents)
        zero_mask == \E a \in names : MaskSum(infos[a]) = 0
        term == [a \in names |-> is_terminal(game_state) \/ zero_mask]
        trunc == [a \in names |-> game_length > max_game_length]
    IN  IF agent_selection \notin names
        THEN [out |-> "raise", terminations |-> term, truncations |-> trunc,
              agents |-> agents, agent_selection |-> agent_selection]
        ELSE IF term[agent_selection] \/ trunc[agent_selection]
        THEN LET rest == ListRemove(agents, agent_selection)
             IN  [out |-> "retire", terminations |-> term, truncations |-> trunc,
                  agents |-> rest,
                  agent_selection |-> IF rest # <<>> THEN rest[1] ELSE agent_selection]
        ELSE [out |-> "continue", terminations |-> term, truncations |-> trunc,
              agents |-> agents, agent_selection |-> agent_selection]

\* ----------------------------------------------------------- the actions
\* (mutant: the pending-action holder is not emptied)
reset_keeps_holder ==
    \E path \in InitialPaths :
        LET ch == execute_chance_node(new_initial_state(path[1].node), 1, path)
            cp == current_player(ch.game_state)
            ok == cp \in DOMAIN agent_id_name_mapping
        IN  /\ agents' = possible_agents
            /\ cumulative_rewards' = [a \in Range(possible_agents) |-> 0]
            /\ rewards' = [a \in Range(possible_agents) |-> 0]
            /\ terminations' = [a \in Range(possible_agents) |-> FALSE]
            /\ truncations' = [a \in Range(possible_agents) |-> FALSE]
            /\ game_length' = ch.game_length
            /\ game_state' = ch.game_state
            /\ simultaneous_actions' = simultaneous_actions
            /\ observations' = update_observations(ch.game_state, possible_agents)
            /\ infos' = update_action_masks(ch.game_state)
            /\ agent_selection' = IF ok THEN agent_id_name_mapping[cp] ELSE agent_selection
            /\ call' = [op |-> "reset", ret |-> IF ok THEN "ok" ELSE "raised",
                        did |-> "none", action |-> 0, applied |-> ch.applied]

reset ==
    \E path \in InitialPaths :
        LET ch == execute_chance_node(new_initial_state(path[1].node), 1, path)
            cp == current_player(ch.game_state)
            ok == cp \in DOMAIN agent_id_name_mapping
        IN  /\ agents' = possible_agents
            /\ cumulative_rewards' = [a \in Range(possible_agents) |-> 0]
            /\ rewards' = [a \in Range(possible_agents) |-> 0]
            /\ terminations' = [a \in Range(possible_agents) |-> FALSE]
            /\ truncations' = [a \in Range(possible_agents) |-> FALSE]
            /\ game_length' = ch.game_length
            /\ game_state' = ch.game_state
            /\ simultaneous_actions' = <<>>
            /\ observations' = update_observations(ch.game_state, possible_agents)
            /\ infos' = update_action_masks(ch.game_state)
            /\ agent_selection' = IF ok THEN agent_id_name_mapping[cp] ELSE agent_selection
            /\ call' = [op |-> "reset", ret |-> IF ok THEN "ok" ELSE "raised",
                        did |-> "none", action |-> 0, applied |-> ch.applied]

\* step is called on an environment whose last reset returned
StepCallable == call.op # "init" /\ ~(call.op = "reset" /\ call.ret = "raised")

step ==
    /\ StepCallable
    /\ \E action \in Actions :
        LET er == end_routine
        IN  IF er.out # "continue"
            THEN /\ terminations' = er.terminations
                 /\ truncations' = er.truncations
                 /\ agents' = er.agents
                 /\ agent_selection' = er.agent_selection
                 /\ call' = [op |-> "step", ret |-> IF er.out = "raise" THEN "raised" ELSE "ok",
                             did |-> IF er.out = "raise" THEN "none" ELSE "retire",
                             action |-> action, applied |-> <<>>]
                 /\ UNCHANGED <<game_state, game_length, cumulative_rewards, rewards, infos,
                                observations, simultaneous_actions>>
            ELSE \E path \in (IF execute_action_node(action, NoState).did = "pending"
                                THEN {<<[node |-> NoState, rnd |-> 0]>>} ELSE Paths) :
                 LET ex == execute_action_node(action, path[1].node)
                     ch == execute_chance_node(ex.game_state, ex.game_length, path)
                 IN  /\ terminations' = er.terminations
                     /\ truncations' = er.truncations
                     /\ agents' = agents
                     /\ agent_selection' = ex.agent_selection
                     /\ simultaneous_actions' = ex.simultaneous_actions
                     /\ game_state' = ch.game_state
                     /\ game_length' = ch.game_length
                     /\ observations' = update_observations(ch.game_state, agents)
                     /\ infos' = update_action_masks(ch.game_state)
                     /\ cumulative_rewards' = update_rewards(ch.game_state)
                     /\ call' = [op |-> "step", ret |-> "ok", did |-> ex.did,
                                 action |-> action, applied |-> ex.applied \o ch.applied]
                     /\ UNCHANGED rewards

Next == reset \/ step

Spec == Init /\ [][Next]_vars

\* ------------------------------------------------------------ the claims
\* what the last call did
Returned == call.op \in {"reset", "step"} /\ call.ret = "ok"
ResetReturned == call.op = "reset" /\ call.ret = "ok"
StepReturned == call.op = "step" /\ call.ret = "ok"
AtSequentialNode == game_state.kind = "seq"
ChanceResolved == {k \in 1 .. Len(call.applied) : call.applied[k].type = "chance"}

\* C1: whenever reset, or a step that did not retire an agent, returns with the
\* simulator at a sequential decision node whose current player is i, the
\* selected agent is player_i.
C1_SelectionIsCurrentPlayer ==
    (Returned /\ call.did # "retire" /\ AtSequentialNode)
        => agent_selection = AgentName(current_player(game_state))

\* C2: whenever step returns normally and agents is non-empty, the selected
\* agent is one of the agents still in the list.
C2_SelectionIsLive ==
    (StepReturned /\ agents # <<>>) => agent_selection \in Range(agents)

\* C3: reset returns normally with a member of agents selected, whether the
\* first decision node is sequential or simultaneous.
C3_ResetSucceeds ==
    (call.op = "reset")
        => (call.ret = "ok" /\ agent_selection \in Range(agents))

\* C4 (helpers): the agents of the list that have not submitted an action in
\* this round once the selected agent has, and the number of chance nodes the
\* call about to return has resolved.
StillMissing == Range(agents) \ (DictKeys(simultaneous_actions) \cup {agent_selection})
NonRetiringStepAtSim ==
    /\ is_simultaneous_node(game_state)
    /\ call'.op = "step" /\ call'.ret = "ok" /\ call'.did \in {"pending", "apply"}
JointsApplied == {k \in 1 .. Len(call.applied) : call.applied[k].type = "joint"}
ActionsApplied == {k \in 1 .. Len(call.applied) : call.applied[k].type = "action"}

C5_TerminalDetectedBySameStep ==
    (StepReturned /\ call.did = "apply" /\ is_terminal(game_state))
        => \A a \in Range(agents) : a \in DOMAIN terminations /\ terminations[a]

\* C6: a step called with all agents live, at a sequential node, within the
\* length limit and with the current player selected applies exactly the given
\* action, increments game_length and retires no agent.
C6_CurrentPlayerActionApplied ==
    [][(/\ StepCallable /\ call'.op = "step"
        /\ agents = possible_agents
        /\ AtSequentialNode
        /\ game_length <= max_game_length
        /\ agent_selection = AgentName(current_player(game_state))
        /\ legal_actions(game_state, current_player(game_state)) # {})
       => (/\ call'.ret = "ok" /\ call'.did = "apply"
           /\ call'.applied[1].type = "action"
           /\ call'.applied[1].move = <<call'.action>>
           /\ game_length' > game_length
           /\ agents' = agents)
    ]_vars

\* C7: when reset or step returns the simulator is not at a chance node; each
\* chance node met in the call was resolved by an outcome of its
\* chance_outcomes(), and each resolution added one to game_length.
C7_NoChanceNodeFaced ==
    /\ [](Returned =>
            /\ ~is_chance_node(game_state)
            /\ \A k \in ChanceResolved : call.applied[k].move[1] \in call.applied[k].outs
            /\ call.op = "reset" => game_length = 1 + Cardinality(ChanceResolved))
    /\ [][(call'.op = "step" /\ call'.ret = "ok") =>
            /\ game_length' = game_length + Cardinality(ChanceResolved')
                                 + (IF call'.did = "apply" THEN 1 ELSE 0)
            /\ game_state'.moves = game_state.moves + Len(call'.applied)
         ]_vars
\* a step has resolved two chance nodes in a row after a player's action
C7_Witness ==
    StepReturned /\ Cardinality(ChanceResolved) >= 2 /\ ActionsApplied # {}

\* C8: when reset or step returns, each player's action mask is 1 exactly on
\* the simulator's legal actions of that player in the current state.
C8_MasksTrackState ==
    Returned =>
        \A i \in Players : \A a \in Actions :
            infos[AgentName(i)][a] = (IF a \in legal_actions(game_state, i) THEN 1 ELSE 0)
\* a step has moved the simulator to a node where two players' masks differ
C8_Witness ==
    /\ StepReturned /\ call.did = "apply"
    /\ \E i, j \in Players : infos[AgentName(i)] # infos[AgentName(j)]
    /\ \E i \in Players : \E a, b \in Actions : infos[AgentName(i)][a] # infos[AgentName(i)][b]

\* C9: with the simulator terminal and agents left, a step does not raise,
\* removes exactly the selected agent, leaves the simulator terminal and
\* selects the first remaining agent; so k agents are gone after k steps.
C9_TerminalRetirement ==
    [][(StepCallable /\ call'.op = "step" /\ is_terminal(game_state) /\ agents # <<>>) =>
        /\ call'.ret = "ok" /\ call'.did = "retire"
        /\ agent_selection \in Range(agents)
        /\ agents' = SelectSeq(agents, LAMBDA x : x # agent_selection)
        /\ Len(agents') = Len(agents) - 1
        /\ game_state' = game_state
        /\ (agents' # <<>>) => agent_selection' = agents'[1]
    ]_vars
\* the last of the agents has been retired at a terminal state
C9_Witness ==
    StepReturned /\ call.did = "retire" /\ is_terminal(game_state) /\ agents = <<>>

\* C10 (helper): the action player i has submitted in the round the step
\* being taken completes
Submitted(i) ==
    IF agent_selection = AgentName(i) THEN call'.action
    ELSE DictGet(simultaneous_actions, AgentName(i))

\* C10: the joint action handed to the simulator has player i's submitted
\* action at position i, in every simultaneous round.
C10_JointActionOrder ==
    [][(/\ is_simultaneous_node(game_state) /\ agents = possible_agents
        /\ call'.op = "step" /\ call'.ret = "ok" /\ call'.did = "apply")
       => (/\ Len(call'.applied[1].move) = NumPlayers
           /\ \A i \in Players : call'.applied[1].move[i + 1] = Submitted(i))
    ]_vars

\* C11 (helpers): what _end_routine looks at before a step
ZeroMaskAmongAgents == \E a \in Range(agents) : MaskSum(infos[a]) = 0
SelectedAgentDone ==
    /\ agent_selection \in Range(agents)
    /\ is_terminal(game_state) \/ ZeroMaskAmongAgents \/ game_length > max_game_length

\* C11: a step whose end routine finds the selected agent terminated or
\* truncated leaves the simulator state, game_length, the observations, the
\* action masks, the cumulative rewards and the pending simultaneous actions
\* as they were, whatever its action argument; it removes exactly the selected
\* agent from agents and selects the first remaining agent, if any.
C11_RetiringStepFrame ==
    [][(StepCallable /\ call'.op = "step" /\ SelectedAgentDone) =>
        /\ call'.ret = "ok" /\ call'.did = "retire" /\ call'.applied = <<>>
        /\ UNCHANGED <<game_state, game_length, observations, infos,
                       cumulative_rewards, simultaneous_actions>>
        /\ agents' = SelectSeq(agents, LAMBDA x : x # agent_selection)
        /\ Len(agents') = Len(agents) - 1
        /\ (agents' # <<>>) => agent_selection' = agents'[1]
    ]_vars
\* an agent that was not the head of the list has been retired at a
\* non-terminal state, with non-zero cumulative rewards left in place
C11_Witness ==
    /\ StepReturned /\ call.did = "retire" /\ ~is_terminal(game_state)
    /\ agents # <<>> /\ agents[1] = possible_agents[1]
    /\ \E a \in DOMAIN cumulative_rewards : cumulative_rewards[a] # 0

\* C12: terminations has one value for all the agents it holds, and so has
\* truncations; a step that finds an all-zero action mask among the agents
\* sets the termination of every agent of the list.
C12_AgentsEndTogether ==
    /\ [](/\ \A a, b \in DOMAIN terminations : terminations[a] = terminations[b]
          /\ \A a, b \in DOMAIN truncations : truncations[a] = truncations[b])
    /\ [][(StepCallable /\ call'.op = "step" /\ ZeroMaskAmongAgents) =>
            /\ DOMAIN terminations' = Range(agents)
            /\ \A a \in Range(agents) : terminations'[a]
         ]_vars
\* every agent was terminated at a non-terminal state because of a zero
\* mask, while another agent still had legal actions
C12_Witness ==
    /\ StepReturned /\ call.did = "retire" /\ ~is_terminal(game_state)
    /\ game_length <= max_game_length
    /\ Cardinality(DOMAIN terminations) >= 2
    /\ \A a \in DOMAIN terminations : terminations[a]
    /\ \E a \in DOMAIN terminations : MaskSum(infos[a]) # 0

\* C13: game_length is 1 plus the number of transitions the simulator has
\* made since the last reset (chance outcomes, single actions and joint
\* actions, one each); a pending or a retiring step adds nothing.
C13_GameLengthCountsNodes ==
    /\ []((call.op # "init") => game_length = 1 + game_state.moves)
    /\ [][(call'.op = "step" /\ call'.did \in {"pending", "retire"}) =>
            (game_length' = game_length /\ game_state'.moves = game_state.moves)
         ]_vars
\* a joint action and a chance outcome were counted after earlier moves
C13_Witness ==
    /\ StepReturned /\ JointsApplied # {} /\ ChanceResolved # {}
    /\ game_state.moves >= 3 /\ game_length = 1 + game_state.moves

\* C14: a step called with game_length above the limit applies nothing, sets
\* the truncation of every remaining agent and retires the selected agent; a
\* step called within the limit leaves every truncation False.
C14_TruncationStopsPlay ==
    [][(StepCallable /\ call'.op = "step" /\ agents # <<>>) =>
        /\ (game_length > max_game_length) =>
              /\ call'.applied = <<>> /\ game_state' = game_state
              /\ \A a \in Range(agents') : a \in DOMAIN truncations' /\ truncations'[a]
              /\ call'.ret = "ok" /\ call'.did = "retire"
              /\ agent_selection \notin Range(agents')
              /\ Len(agents') = Len(agents) - 1
        /\ (game_length <= max_game_length) =>
              \A a \in Range(agents') : a \in DOMAIN truncations' /\ ~truncations'[a]
    ]_vars

\* C15: when a step has recorded the selected agent's action at a simultaneous
\* node and other agents are still awaited, that agent's cumulative reward is
\* 0 on return, whatever the simulator's rewards() says.
C15_RewardZeroedOncePending ==
    [][(call'.op = "step" /\ call'.ret = "ok" /\ call'.did = "pending") =>
        cumulative_rewards'[agent_selection] = 0
    ]_vars

C17_RetirementIsFinal ==
    [][(StepCallable /\ call'.op = "step" /\ agents # possible_agents /\ agents # <<>>) =>
        /\ call'.ret = "ok" /\ call'.did = "retire"
        /\ call'.applied = <<>>
        /\ game_state' = game_state /\ game_length' = game_length
        /\ Len(agents') = Len(agents) - 1
    ]_vars

\* C18 (helper): every dict of the boilerplate holds value v for all agents
AllAgentsHave(d, v) == DOMAIN d = Range(possible_agents) /\ \A a \in DOMAIN d : d[a] = v

\* C18: when reset returns, whatever came before, agents is possible_agents,
\* terminations and truncations are False and rewards and cumulative rewards
\* 0 for every agent, no simultaneous action is pending, the simulator has
\* made only the moves of its initial chance nodes, and game_length is 1 plus
\* their number.
C18_ResetRestoresFreshEpisode ==
    ResetReturned =>
        /\ agents = possible_agents
        /\ AllAgentsHave(terminations, FALSE) /\ AllAgentsHave(truncations, FALSE)
        /\ AllAgentsHave(rewards, 0) /\ AllAgentsHave(cumulative_rewards, 0)
        /\ simultaneous_actions = <<>>
        /\ \A k \in 1 .. Len(call.applied) : call.applied[k].type = "chance"
        /\ game_state.moves = Len(call.applied)
        /\ ~is_chance_node(game_state)
        /\ game_length = 1 + Len(call.applied)
\* reset has returned after resolving two initial chance nodes
C18_Witness ==
    ResetReturned /\ Len(call.applied) >= 2 /\ game_length = 3

====
